---- MODULE Spec2Model ----
(***************************************************************************)
(* Model of the live heat-overlay feed.                                    *)
(*                                                                         *)
(*   consumer: src/map.js (addGujaratHeatmap, connectWebSocket and the     *)
(*             four WebSocket handlers, the reconnect timer)               *)
(*   producer: src/websocket-server-example.js (connection handler,        *)
(*             incoming-message handler, the 3-second tick)                *)
(*                                                                         *)
(* Units: latitude/longitude in 1e-4 degrees. Consumer-side point weights  *)
(* in tenths. Producer intensities in 1e-4 (Scale = 1.0).                  *)
(***************************************************************************)
EXTENDS Integers, Sequences, FiniteSets, TLC

VARIABLES
    \* ---- consumer (src/map.js) ----
    started,              \* addGujaratHeatmap has run (map.js:348-355)
    heatmapLayer,         \* point list held by window.heatmapLayer (map.js:177-192)
    sockets,              \* the WebSocket objects created so far, by creation index (map.js:270)
    heatmapWebSocket,     \* window.heatmapWebSocket: index of the stored socket, 0 = unset (map.js:338)
    timers,               \* pending setTimeout callbacks, in firing order (map.js:330-334)
    wsReconnectDisabled,  \* window.wsReconnectDisabled (map.js:331)
    attempts,             \* number of connectWebSocket calls so far
    ev,                   \* the consumer event handled last (history)
    \* ---- producer (src/websocket-server-example.js) ----
    somnathCrowdIntensity,  \* line 39
    crowdGatheringActive,   \* line 40
    updateCount,            \* line 41
    clients,              \* the tracked connections, the Set `clients` (line 78)
    readyState,           \* readyState of every server-side connection (line 202)
    sent,                 \* messages sent by the handler that ran last, per connection
    first,                \* type of the first message sent on each current connection (history)
    malformedFrom,        \* current connections that have sent a payload JSON.parse rejects (history)
    pev                   \* the producer event handled last (history)

cvars == <<started, heatmapLayer, sockets, heatmapWebSocket, timers,
           wsReconnectDisabled, attempts, ev>>
pvars == <<somnathCrowdIntensity, crowdGatheringActive, updateCount, clients,
           readyState, sent, first, malformedFrom, pev>>
vars == <<cvars, pvars>>

-----------------------------------------------------------------------------
(* Bounds *)

\* connectWebSocket calls explored (the code has no cap)
MaxAttempts == 3

-----------------------------------------------------------------------------
(* Consumer: data *)

ReconnectDelay == 5000

fallbackStaticData ==
    << <<230225, 725714, 10>>, <<223072, 708022, 8>>, <<211702, 728311, 9>>,
       <<231815, 696692, 7>>,  <<224707, 700583, 8>>, <<232156, 726369, 9>>,
       <<223039, 708022, 7>>,  <<217645, 721519, 8>>, <<238481, 721293, 7>>,
       <<245854, 727023, 6>>,  <<223094, 731812, 7>>, <<226015, 729697, 8>>,
       <<231667, 701333, 6>>,  <<223000, 732000, 7>>, <<230333, 726167, 9>>,
       <<227000, 728667, 7>>,  <<215167, 704500, 6>>, <<225667, 729167, 7>>,
       <<230833, 726333, 8>>,  <<224500, 728000, 7>>, <<230225, 725714, 10>>,
       <<230325, 725814, 9>>,  <<230125, 725614, 9>>, <<230425, 725914, 8>>,
       <<230025, 725514, 8>>,  <<223072, 708022, 8>>, <<211702, 728311, 9>>,
       <<211802, 728411, 8>>,  <<211602, 728211, 8>>, <<211902, 728511, 7>>,
       <<211502, 728111, 7>>,  <<208883, 704011, 9>>, <<208983, 704111, 8>>,
       <<208783, 703911, 8>> >>

\* Point lists that arrive in messages
PointLists ==
    { << >>,
      << <<208883, 704011, 5>> >>,
      << <<208883, 704011, 10>>, <<230225, 725714, 7>> >> }

\* JavaScript values a message's `data` field can hold.
\*   k = "undefined" : field absent          (falsy)
\*   k = "null"      : null                  (falsy)
\*   k = "string"    : a non-empty string    (truthy, not an array)
\*   k = "array"     : the array pts         (truthy, Array.isArray)
DataValues ==
    { [k |-> "undefined", pts |-> << >>],
      [k |-> "null",      pts |-> << >>],
      [k |-> "string",    pts |-> << >>] }
    \cup { [k |-> "array", pts |-> p] : p \in PointLists }

Undefined == [k |-> "undefined", pts |-> << >>]

Truthy(v) == v.k \in {"string", "array"}
IsArray(v) == v.k = "array"

\* JSON values a payload can parse to.
\*   shape "object": an object with a `type` member ("undefined" = absent) and a `data` member
\*   shape "array" : a bare array, held in data
\*   shape "number": a number; member reads give undefined
\*   shape "null"  : null; a member read throws TypeError
Messages ==
    { [shape |-> "object", type |-> t, data |-> d] :
        t \in {"heatmap_update", "full_update", "other", "undefined"}, d \in DataValues }
    \cup { [shape |-> "array", type |-> "undefined", data |-> [k |-> "array", pts |-> p]] :
             p \in PointLists }
    \cup { [shape |-> "number", type |-> "undefined", data |-> Undefined],
           [shape |-> "null",   type |-> "undefined", data |-> Undefined] }

\* Text payloads: well-formed JSON text of a value, or text that is not JSON.
Payloads ==
    { [json |-> TRUE, value |-> m] : m \in Messages }
    \cup { [json |-> FALSE, value |-> [shape |-> "null", type |-> "undefined", data |-> Undefined]] }

NoPayload == [json |-> FALSE, value |-> [shape |-> "number", type |-> "undefined", data |-> Undefined]]

-----------------------------------------------------------------------------
(* Consumer: pure helpers *)

\* JSON.parse: the parsed value, or a thrown SyntaxError
JSON_parse(p) == [threw |-> ~p.json, value |-> p.value]

\* message.type / message.data on a parsed value (undefined when not an object)
MemberType(m) == IF m.shape = "object" THEN m.type ELSE "undefined"
MemberData(m) == IF m.shape = "object" THEN m.data ELSE Undefined

\* Mutant: the new points are added to the ones the layer holds
updateHeatmapData_merge(layer, data) == IF IsArray(data) THEN layer \o data.pts ELSE layer

\* updateHeatmapData(data): setLatLngs(data) when data is an array, else nothing.
\* `layer` is the point list held before the call, the result the one held after.
updateHeatmapData(layer, data) == IF IsArray(data) THEN data.pts ELSE layer

\* Mutant: the call leaves the layer as it is
useFallbackData_noop(layer) == layer

\* useFallbackData(): setLatLngs(fallbackStaticData)
useFallbackData(layer) == fallbackStaticData

\* Mutant: the catch block treats a bad payload like a lost connection
onmessageCatch_fallback(layer) == fallbackStaticData

\* The catch block of ws.onmessage: two console.error calls
onmessageCatch(layer) == layer

\* Mutant: only the two typed branches exist
onmessageDispatch_typedOnly(layer, m) ==
    IF MemberType(m) \in {"heatmap_update", "full_update"} /\ Truthy(MemberData(m))
    THEN updateHeatmapData(layer, MemberData(m))
    ELSE layer

\* The if/else chain of ws.onmessage on the parsed value m
onmessageDispatch(layer, m) ==
    IF MemberType(m) = "heatmap_update" /\ Truthy(MemberData(m))
    THEN updateHeatmapData(layer, MemberData(m))
    ELSE IF MemberType(m) = "full_update" /\ Truthy(MemberData(m))
    THEN updateHeatmapData(layer, MemberData(m))
    ELSE IF m.shape = "array"
    THEN updateHeatmapData(layer, m.data)
    ELSE IF Truthy(MemberData(m)) /\ IsArray(MemberData(m))
    THEN updateHeatmapData(layer, MemberData(m))
    ELSE layer                                     \* "Unknown message format"

\* Body of ws.onmessage: the point list held after handling payload p.
\* JSON.parse may throw; so does the read of message.type when the value is null.
onmessageLayer(layer, p) ==
    LET r == JSON_parse(p)
    IN  IF r.threw \/ r.value.shape = "null"
        THEN onmessageCatch(layer)
        ELSE onmessageDispatch(layer, r.value)

\* Mutant: the request names another region
RequestData_india == [type |-> "request_data", region |-> "india"]

\* The object ws.onopen sends
RequestData == [type |-> "request_data", region |-> "gujarat"]

\* A socket: its phase, the messages sent on it with ws.send, and whether a
\* payload that was not JSON has arrived on it (history)
NoSocket  == [phase |-> "NONE",       sent |-> << >>, malformedSeen |-> FALSE]
NewSocket == [phase |-> "CONNECTING", sent |-> << >>, malformedSeen |-> FALSE]

\* The timer set by ws.onclose. disabledAtClose records the flag's value when
\* the timer was set (history; the callback never reads it).
ReconnectTimer(d) == [delay |-> ReconnectDelay, disabledAtClose |-> d]

\* name: the handler; sock: its socket (0 = none); payload: the text of a
\* message event; disabledAtClose: for a timer event, the timer's history field
Event(n, s, p) == [name |-> n, sock |-> s, payload |-> p, disabledAtClose |-> FALSE]

-----------------------------------------------------------------------------
(* Consumer: operations *)

\* connectWebSocket(): `created` is whether `new WebSocket(wsUrl)` returned
\* (otherwise it threw and the catch block ran). `layer` is the point list held
\* when the function is entered.
connectWebSocket(layer, created) ==
    /\ attempts' = attempts + 1
    /\ IF created
       THEN /\ sockets' = [sockets EXCEPT ![attempts + 1] = NewSocket]
            /\ heatmapWebSocket' = attempts + 1
            /\ heatmapLayer' = layer
       ELSE /\ heatmapLayer' = useFallbackData(layer)
            /\ UNCHANGED <<sockets, heatmapWebSocket>>

\* addGujaratHeatmap(), the part after the layer exists: fallback first, then connect
addGujaratHeatmap ==
    /\ UNCHANGED pvars
    /\ ~started
    /\ started' = TRUE
    /\ \E created \in BOOLEAN : connectWebSocket(useFallbackData(heatmapLayer), created)
    /\ ev' = Event("startup", 0, NoPayload)
    /\ UNCHANGED <<timers, wsReconnectDisabled>>

\* ws.onopen: the handshake succeeded
onopen(s) ==
    /\ UNCHANGED pvars
    /\ sockets[s].phase = "CONNECTING"
    /\ sockets' = [sockets EXCEPT ![s].phase = "OPEN",
                                  ![s].sent = Append(@, RequestData)]
    /\ ev' = Event("open", s, NoPayload)
    /\ UNCHANGED <<started, heatmapLayer, heatmapWebSocket, timers,
                   wsReconnectDisabled, attempts>>

\* ws.onmessage with text payload p (delivered only while the socket is open)
onmessage(s, p) ==
    /\ UNCHANGED pvars
    /\ sockets[s].phase = "OPEN"
    /\ heatmapLayer' = onmessageLayer(heatmapLayer, p)
    /\ sockets' = [sockets EXCEPT ![s].malformedSeen = @ \/ JSON_parse(p).threw]
    /\ ev' = Event("message", s, p)
    /\ UNCHANGED <<started, heatmapWebSocket, timers, wsReconnectDisabled, attempts>>

\* Mutant: ws.onerror schedules a reconnect of its own
onerrorTimers_schedules(ts, d) == Append(ts, ReconnectTimer(d))

\* The timers pending after ws.onerror ran: it sets none
onerrorTimers(ts, d) == ts

\* ws.onerror: the connection failed (during the handshake or while open);
\* the socket is closed and its close event follows
onerror(s) ==
    /\ UNCHANGED pvars
    /\ sockets[s].phase \in {"CONNECTING", "OPEN"}
    /\ sockets' = [sockets EXCEPT ![s].phase = "ERRORED"]
    /\ heatmapLayer' = useFallbackData(heatmapLayer)
    /\ timers' = onerrorTimers(timers, wsReconnectDisabled)
    /\ ev' = Event("error", s, NoPayload)
    /\ UNCHANGED <<started, heatmapWebSocket, wsReconnectDisabled, attempts>>

\* Mutant: the reconnect is scheduled twice for one close
oncloseTimers_twice(ts, d) == Append(Append(ts, ReconnectTimer(d)), ReconnectTimer(d))

\* Mutant: ws.onclose schedules nothing
oncloseTimers_none(ts, d) == ts

\* The timers pending after ws.onclose ran
oncloseTimers(ts, d) == Append(ts, ReconnectTimer(d))

\* Mutant: ws.onclose leaves the overlay as it is
oncloseLayer_keeps(layer) == layer

\* The overlay after ws.onclose ran: useFallbackData()
oncloseLayer(layer) == useFallbackData(layer)

\* ws.onclose: after an error event, or a clean close of an open socket
onclose(s) ==
    /\ UNCHANGED pvars
    /\ sockets[s].phase \in {"OPEN", "ERRORED"}
    /\ sockets' = [sockets EXCEPT ![s].phase = "CLOSED"]
    /\ heatmapLayer' = oncloseLayer(heatmapLayer)
    /\ timers' = oncloseTimers(timers, wsReconnectDisabled)
    /\ ev' = Event("close", s, NoPayload)
    /\ UNCHANGED <<started, heatmapWebSocket, wsReconnectDisabled, attempts>>

\* Mutant: the callback ignores the flag
retryConnects_always(disabled) == TRUE

\* Mutant: the callback tests the flag the wrong way round
retryConnects_inverted(disabled) == disabled

\* Whether the timer callback calls connectWebSocket, given the flag's value
\* when the callback runs
retryConnects(disabled) == ~disabled

\* Mutant: a callback that finds the flag set waits another delay and looks again
timersAfterFiring_polls(ts, disabled) ==
    IF disabled THEN Append(Tail(ts), ReconnectTimer(disabled)) ELSE Tail(ts)

\* The timers pending after the callback ran: setTimeout fires once and the
\* callback sets no timer, whatever the flag holds
timersAfterFiring(ts, disabled) == Tail(ts)

\* The setTimeout callback of ws.onclose
reconnectTimer ==
    /\ UNCHANGED pvars
    /\ timers # << >>
    /\ attempts < MaxAttempts
    /\ timers' = timersAfterFiring(timers, wsReconnectDisabled)
    /\ IF retryConnects(wsReconnectDisabled)
       THEN \E created \in BOOLEAN : connectWebSocket(heatmapLayer, created)
       ELSE UNCHANGED <<heatmapLayer, sockets, heatmapWebSocket, attempts>>
    /\ ev' = [Event("timer", 0, NoPayload) EXCEPT
                !.disabledAtClose = Head(timers).disabledAtClose]
    /\ UNCHANGED <<started, wsReconnectDisabled>>

\* The caller sets or clears window.wsReconnectDisabled
setReconnectDisabled(b) ==
    /\ UNCHANGED pvars
    /\ wsReconnectDisabled # b
    /\ wsReconnectDisabled' = b
    /\ ev' = Event("flag", 0, NoPayload)
    /\ UNCHANGED <<started, heatmapLayer, sockets, heatmapWebSocket, timers, attempts>>

ConsumerInit ==
    /\ started = FALSE
    /\ heatmapLayer = << >>
    /\ sockets = [s \in 1..MaxAttempts |-> NoSocket]
    /\ heatmapWebSocket = 0
    /\ timers = << >>
    /\ wsReconnectDisabled = FALSE
    /\ attempts = 0
    /\ ev = Event("init", 0, NoPayload)

ConsumerNext ==
    \/ addGujaratHeatmap
    \/ \E s \in 1..MaxAttempts : onopen(s)
    \/ \E s \in 1..MaxAttempts, p \in Payloads : onmessage(s, p)
    \/ \E s \in 1..MaxAttempts : onerror(s)
    \/ \E s \in 1..MaxAttempts : onclose(s)
    \/ reconnectTimer
    \/ \E b \in BOOLEAN : setReconnectDisabled(b)

-----------------------------------------------------------------------------
(* Producer: numbers *)

\* 1.0 in the producer's intensity unit (1e-4)
Scale == 10000

\* A JavaScript number: NaN, or n units of 1e-4
Num(n) == [nan |-> FALSE, n |-> n]
NaN == [nan |-> TRUE, n |-> 0]

Math_min(a, b) == IF a.nan \/ b.nan THEN NaN ELSE IF a.n <= b.n THEN a ELSE b
Math_max(a, b) == IF a.nan \/ b.nan THEN NaN ELSE IF a.n >= b.n THEN a ELSE b
Plus(a, b) == IF a.nan \/ b.nan THEN NaN ELSE Num(a.n + b.n)

\* Math.floor(x * k) for a whole number k, as a plain integer (NaN stays NaN)
FloorTimes(x, k) == IF x.nan THEN NaN ELSE [nan |-> FALSE, n |-> (x.n * k) \div Scale]

\* A JSON member used as a number (the coercion Math.min applies):
\* a number is itself, null is 0, an absent member or a non-numeric string is NaN
ToNumber(v) ==
    IF v.k = "number" THEN Num(v.n)
    ELSE IF v.k = "null" THEN Num(0)
    ELSE NaN

\* Math.random() draws, in thousandths: a value r stands for r/1000 in [0, 1)
VariationDraws == {0, 500, 999}
SpikeDraws == {99, 100}
Seeds == {0, 431}

\* The k-th draw after the seed draw g
Rand(g, k) == (g + 377 * k) % 1000

-----------------------------------------------------------------------------
(* Producer: data *)

SOMNATH_TEMPLE == [lat |-> 208883, lng |-> 704011]

baseHeatmapData ==
    << <<230225, 725714, Num(7000)>>, <<223072, 708022, Num(6000)>>,
       <<211702, 728311, Num(7000)>>, <<231815, 696692, Num(5000)>>,
       <<224707, 700583, Num(6000)>>, <<232156, 726369, Num(7000)>>,
       <<217645, 721519, Num(6000)>>, <<230333, 726167, Num(7000)>>,
       <<227000, 728667, Num(5000)>> >>

\* Mutant: the count scales with 20 instead of 15
numPointsFor_wide(intensity) == Plus(FloorTimes(intensity, 20), [nan |-> FALSE, n |-> 5])

\* const numPoints = Math.floor(intensity * 15) + 5
numPointsFor(intensity) == Plus(FloorTimes(intensity, 15), [nan |-> FALSE, n |-> 5])

\* generateSomnathHeatPoints(intensity); g seeds the draws of the loop
\* (three per satellite point: latOffset, lngOffset, pointIntensity).
\* Offsets (r - 0.5) * 0.01 degrees are (r - 500) \div 10 units of 1e-4.
generateSomnathHeatPoints(intensity, g) ==
    LET numPoints == numPointsFor(intensity)
        \* the loop runs while i < numPoints - 1; a NaN bound ends it at once
        nSat == IF numPoints.nan \/ numPoints.n - 1 < 0 THEN 0 ELSE numPoints.n - 1
        sat(i) ==
            LET latOffset == (Rand(g, 3 * i) - 500) \div 10
                lngOffset == (Rand(g, 3 * i + 1) - 500) \div 10
                pointIntensity ==
                    IF intensity.nan THEN NaN
                    ELSE Num((intensity.n * (7000 + 3 * Rand(g, 3 * i + 2))) \div 10000)
            IN  << SOMNATH_TEMPLE.lat + latOffset,
                   SOMNATH_TEMPLE.lng + lngOffset,
                   Math_min(Num(Scale), pointIntensity) >>
    IN  << <<SOMNATH_TEMPLE.lat, SOMNATH_TEMPLE.lng, intensity>> >>
        \o [i \in 1..nSat |-> sat(i - 1)]

\* getCurrentHeatmapData(), reading the stored intensity
getCurrentHeatmapData(intensity, g) ==
    baseHeatmapData \o generateSomnathHeatPoints(intensity, g)

Abs(x) == IF x < 0 THEN -x ELSE x

\* The map() of the tick over currentData: points within 0.02 degrees of the
\* temple are kept, every other point gets (r - 0.5) * 0.1 added, kept in [0.1, 1.0]
jitterData(currentData, g) ==
    [ i \in 1..Len(currentData) |->
        LET point == currentData[i]
            isSomnathArea == /\ Abs(point[1] - SOMNATH_TEMPLE.lat) < 200
                             /\ Abs(point[2] - SOMNATH_TEMPLE.lng) < 200
            variation == Num(Rand(g, 100 + i) - 500)
            newIntensity == Math_max(Num(1000),
                                     Math_min(Num(Scale), Plus(point[3], variation)))
        IN  IF isSomnathArea THEN point ELSE <<point[1], point[2], newIntensity>> ]

\* The connections of the model (server-side socket objects)
Conns == {1, 2}

\* JSON values of the member `intensity` of an inbound message
IntensityValues ==
    { [k |-> "number", n |-> 25000], [k |-> "number", n |-> -30000],
      [k |-> "number", n |-> 2500],  [k |-> "undefined", n |-> 0],
      [k |-> "null", n |-> 0] }

\* Values of the member `active`: the booleans, or absent
ActiveValues == {"true", "false", "undefined"}

JsTruthy(a) == a = "true"

NoIntensity == [k |-> "undefined", n |-> 0]

\* Parsed inbound messages: shape "null" is the JSON text null
ViewerMessages ==
    { [shape |-> "object", type |-> "request_data", region |-> r,
       intensity |-> NoIntensity, active |-> "undefined"] : r \in {"gujarat", "kutch"} }
    \cup { [shape |-> "object", type |-> "set_crowd_intensity", region |-> "undefined",
            intensity |-> v, active |-> "undefined"] : v \in IntensityValues }
    \cup { [shape |-> "object", type |-> "toggle_gathering", region |-> "undefined",
            intensity |-> NoIntensity, active |-> a] : a \in ActiveValues }
    \cup { [shape |-> "object", type |-> "ping", region |-> "undefined",
            intensity |-> NoIntensity, active |-> "undefined"],
           [shape |-> "null", type |-> "undefined", region |-> "undefined",
            intensity |-> NoIntensity, active |-> "undefined"] }

NoMessage == [shape |-> "none", type |-> "undefined", region |-> "undefined",
              intensity |-> NoIntensity, active |-> "undefined"]

ViewerPayloads ==
    { [json |-> TRUE, value |-> m] : m \in ViewerMessages }
    \cup { [json |-> FALSE, value |-> NoMessage] }

NoViewerPayload == [json |-> TRUE, value |-> NoMessage]

\* name: the handler; conn: its connection (0 = none); payload: the text of a
\* message event; before: for a tick event, the intensity on entry (history)
PEvent(n, c, p) == [name |-> n, conn |-> c, payload |-> p, before |-> NaN]

-----------------------------------------------------------------------------
(* Producer: operations *)

\* updateCount values explored (the code has no cap)
MaxUpdateCount == 4

\* Number.toFixed(d) for d = 2 or 3: the value rounded to 10^-d, in units of 10^-d
toFixed(x, d) ==
    IF x.nan THEN NaN
    ELSE IF d = 3 THEN Num((x.n + 5) \div 10)
    ELSE Num((x.n + 50) \div 100)

\* The full_update object sent on connection and on request_data
FullUpdate(intensity, g) ==
    [type |-> "full_update",
     data |-> getCurrentHeatmapData(intensity, g),
     message |-> toFixed(intensity, 2)]

\* The heatmap_update object broadcast by the tick
HeatmapUpdate(intensity, g) ==
    [type |-> "heatmap_update",
     data |-> jitterData(getCurrentHeatmapData(intensity, g), g),
     somnathIntensity |-> toFixed(intensity, 3),
     crowdCount |-> FloorTimes(intensity, 1000)]

NothingSent == [c \in Conns |-> << >>]

\* first message type of each connection, after the handler sent `out`
firstAfter(f, out) ==
    [c \in Conns |-> IF f[c] = "none" /\ out[c] # << >> THEN Head(out[c]).type ELSE f[c]]

\* Mutant: the handler only registers the connection and waits for the tick
connectionSends_nothing(intensity, g) == << >>

\* What the connection handler sends to the new connection
connectionSends(intensity, g) == << FullUpdate(intensity, g) >>

\* wss.on("connection"): a new viewer connected
connection(c, g) ==
    /\ UNCHANGED cvars
    /\ readyState[c] = "NONE"
    /\ readyState' = [readyState EXCEPT ![c] = "OPEN"]
    /\ clients' = clients \cup {c}
    /\ sent' = [NothingSent EXCEPT ![c] = connectionSends(somnathCrowdIntensity, g)]
    /\ first' = firstAfter([first EXCEPT ![c] = "none"], sent')
    /\ malformedFrom' = malformedFrom \ {c}
    /\ pev' = PEvent("connection", c, NoViewerPayload)
    /\ UNCHANGED <<somnathCrowdIntensity, crowdGatheringActive, updateCount>>

\* Mutant: the lower clamp is missing
setCrowdIntensity_noFloor(v) == Math_min(Num(Scale), ToNumber(v))

\* The intensity stored by a set_crowd_intensity message carrying v
setCrowdIntensity(v) == Math_max(Num(0), Math_min(Num(Scale), ToNumber(v)))

\* Mutant: the reply is sent whatever region the request names
requestDataReplies_anyRegion(data) == data.type = "request_data"

\* The test of the request_data branch
requestDataReplies(data) == data.type = "request_data" /\ data.region = "gujarat"

\* Mutant: the message flips the flag instead of storing its value
toggled_flip(flag, active) == IF flag = "true" THEN "false" ELSE "true"

\* crowdGatheringActive = data.active
toggled(flag, active) == active

\* Mutant: the catch drops the sender from the tracked set
incomingCatch_drop(cs, c) == cs \ {c}

\* The tracked set after the catch of the message handler (it only logs)
incomingCatch(cs, c) == cs

\* ws.on("message"): an inbound text payload p from connection c
incoming(c, p) ==
    /\ UNCHANGED cvars
    /\ readyState[c] = "OPEN"
    /\ pev' = PEvent("message", c, p)
    /\ UNCHANGED <<updateCount, readyState>>
    /\ malformedFrom' = IF p.json THEN malformedFrom ELSE malformedFrom \cup {c}
    /\ IF ~p.json \/ p.value.shape = "null"
       THEN \* JSON.parse or the read of data.type threw: catch, log only
            /\ sent' = NothingSent
            /\ clients' = incomingCatch(clients, c)
            /\ UNCHANGED <<somnathCrowdIntensity, crowdGatheringActive, first>>
       ELSE LET data == p.value IN
            /\ UNCHANGED clients
            /\ IF requestDataReplies(data)
               THEN \E g \in Seeds :
                      sent' = [NothingSent EXCEPT
                                 ![c] = << FullUpdate(somnathCrowdIntensity, g) >>]
               ELSE sent' = NothingSent
            /\ first' = firstAfter(first, sent')
            /\ somnathCrowdIntensity' =
                  IF data.type = "set_crowd_intensity"
                  THEN setCrowdIntensity(data.intensity)
                  ELSE somnathCrowdIntensity
            /\ crowdGatheringActive' =
                  IF data.type = "toggle_gathering"
                  THEN toggled(crowdGatheringActive, data.active)
                  ELSE crowdGatheringActive

\* The peer starts the closing handshake: the connection stays tracked until
\* its close event, and is no longer open
beginClose(c) ==
    /\ UNCHANGED cvars
    /\ readyState[c] = "OPEN"
    /\ readyState' = [readyState EXCEPT ![c] = "CLOSING"]
    /\ sent' = NothingSent
    /\ pev' = PEvent("closing", c, NoViewerPayload)
    /\ UNCHANGED <<somnathCrowdIntensity, crowdGatheringActive, updateCount,
                   clients, first, malformedFrom>>

\* ws.on("close")
close(c) ==
    /\ UNCHANGED cvars
    /\ readyState[c] \in {"OPEN", "CLOSING"}
    /\ clients' = clients \ {c}
    /\ readyState' = [readyState EXCEPT ![c] = "NONE"]
    /\ sent' = NothingSent
    /\ first' = [first EXCEPT ![c] = "none"]
    /\ malformedFrom' = malformedFrom \ {c}
    /\ pev' = PEvent("close", c, NoViewerPayload)
    /\ UNCHANGED <<somnathCrowdIntensity, crowdGatheringActive, updateCount>>

\* ws.on("error"): the socket is being torn down, its close event follows
error(c) ==
    /\ UNCHANGED cvars
    /\ readyState[c] = "OPEN" \/ (readyState[c] = "CLOSING" /\ c \in clients)
    /\ clients' = clients \ {c}
    /\ readyState' = [readyState EXCEPT ![c] = "CLOSING"]
    /\ sent' = NothingSent
    /\ pev' = PEvent("error", c, NoViewerPayload)
    /\ UNCHANGED <<somnathCrowdIntensity, crowdGatheringActive, updateCount, first,
                   malformedFrom>>

\* Mutant: the tick advances whatever the flag holds
gatheringAdvances_always(flag) == TRUE

\* The test `if (crowdGatheringActive)` of the tick
gatheringAdvances(flag) == JsTruthy(flag)

\* Mutant: the spike is added without the upper clamp
tickIntensity_unclipped(count, r1, r2) ==
    LET targetIntensity == Math_min(Num(Scale), Num(5000 + 50 * count))
        variation == Num((r1 - 500) \div 2)
        base == Math_max(Num(3000),
                         Math_min(Num(Scale), Plus(targetIntensity, variation)))
    IN  IF r2 < 100 THEN Plus(base, Num(2000)) ELSE base

\* The intensity the tick stores when gathering is active: count is the
\* incremented updateCount, r1 and r2 the two Math.random() draws.
\* 0.5 + (count / 100) * 0.5 is 5000 + 50 * count units; (r1 - 0.5) * 0.05 is
\* (r1 - 500) \div 2 units.
tickIntensity(count, r1, r2) ==
    LET targetIntensity == Math_min(Num(Scale), Num(5000 + 50 * count))
        variation == Num((r1 - 500) \div 2)
        base == Math_max(Num(3000),
                         Math_min(Num(Scale), Plus(targetIntensity, variation)))
    IN  IF r2 < 100 THEN Math_min(Num(Scale), Plus(base, Num(2000))) ELSE base

\* Mutant: the tick sends to every tracked connection, open or not
broadcastTargets_all == clients

\* The connections the tick sends to
broadcastTargets == {c \in clients : readyState[c] = "OPEN"}

\* Mutant: the tick runs whether or not a viewer is tracked
tickRuns_always(cs) == TRUE

\* The test `if (clients.size > 0)` of the tick
tickRuns(cs) == cs # {}

\* Mutant: the counter advances by two
nextUpdateCount_double(n) == n + 2

\* updateCount++
nextUpdateCount(n) == n + 1

\* The setInterval callback (every 3 seconds), explored while updateCount is
\* below max. The event records the intensity found on entry (history).
tickUpTo(max, r1, r2, g) ==
    /\ UNCHANGED cvars
    /\ pev' = [PEvent("tick", 0, NoViewerPayload) EXCEPT !.before = somnathCrowdIntensity]
    /\ UNCHANGED <<crowdGatheringActive, clients, readyState, malformedFrom>>
    /\ IF tickRuns(clients)
       THEN /\ IF gatheringAdvances(crowdGatheringActive)
               THEN /\ updateCount < max
                    /\ updateCount' = nextUpdateCount(updateCount)
                    /\ somnathCrowdIntensity' = tickIntensity(updateCount', r1, r2)
               ELSE UNCHANGED <<updateCount, somnathCrowdIntensity>>
            /\ sent' = [c \in Conns |->
                          IF c \in broadcastTargets
                          THEN << HeatmapUpdate(somnathCrowdIntensity', g) >>
                          ELSE << >>]
            /\ first' = firstAfter(first, sent')
       ELSE /\ sent' = NothingSent
            /\ UNCHANGED <<updateCount, somnathCrowdIntensity, first>>

tick(r1, r2, g) == tickUpTo(MaxUpdateCount, r1, r2, g)

ProducerInit ==
    /\ somnathCrowdIntensity = Num(5000)
    /\ crowdGatheringActive = "true"
    /\ updateCount = 0
    /\ clients = {}
    /\ readyState = [c \in Conns |-> "NONE"]
    /\ sent = NothingSent
    /\ first = [c \in Conns |-> "none"]
    /\ malformedFrom = {}
    /\ pev = PEvent("init", 0, NoViewerPayload)

ProducerNext ==
    \/ \E c \in Conns, g \in Seeds : connection(c, g)
    \/ \E c \in Conns, p \in ViewerPayloads : incoming(c, p)
    \/ \E c \in Conns : beginClose(c)
    \/ \E c \in Conns : close(c)
    \/ \E c \in Conns : error(c)
    \/ \E r1 \in VariationDraws, r2 \in SpikeDraws, g \in Seeds : tick(r1, r2, g)

-----------------------------------------------------------------------------
(* Specifications *)

Init == ConsumerInit /\ ProducerInit

\* The consumer (src/map.js) against an arbitrary server and caller
Consumer == Init /\ [][ConsumerNext]_vars

\* The producer (src/websocket-server-example.js) against arbitrary viewers
Producer == Init /\ [][ProducerNext]_vars

\* Intensities sent as overrides in ProducerCluster: the ends of [0, 1] and
\* values on both sides of a step of Math.floor(intensity * 15)
ClusterIntensities == {0, 666, 667, 3333, 5000, 9333, 9334, 9999, 10000}

ClusterPayloads ==
    { [json |-> TRUE,
       value |-> [shape |-> "object", type |-> "set_crowd_intensity",
                  region |-> "undefined",
                  intensity |-> [k |-> "number", n |-> i], active |-> "undefined"]] :
        i \in ClusterIntensities }
    \cup { [json |-> TRUE,
            value |-> [shape |-> "object", type |-> "request_data", region |-> "gujarat",
                       intensity |-> NoIntensity, active |-> "undefined"]] }

\* The producer with one viewer that sets intensities across [0, 1] and asks
\* for the data
ProducerClusterNext ==
    \/ \E g \in Seeds : connection(1, g)
    \/ \E p \in ClusterPayloads : incoming(1, p)
    \/ close(1)
    \/ \E r1 \in VariationDraws, r2 \in SpikeDraws, g \in Seeds : tick(r1, r2, g)

ProducerCluster == Init /\ [][ProducerClusterNext]_vars

\* Ticks explored in ProducerRamp: past the 100th, where the target stops at 1.0
MaxRampCount == 104

\* The override to a negative value, stored as 0
RampPayloads ==
    { p \in ViewerPayloads :
        /\ p.json /\ p.value.shape = "object" /\ p.value.type = "set_crowd_intensity"
        /\ p.value.intensity = [k |-> "number", n |-> -30000] }

\* The producer with one viewer that overrides the intensity to 0 while the
\* counter climbs past 100
ProducerRampNext ==
    \/ connection(1, 0)
    \/ \E p \in RampPayloads : incoming(1, p)
    \/ close(1)
    \/ \E r1 \in VariationDraws, r2 \in SpikeDraws : tickUpTo(MaxRampCount, r1, r2, 0)

ProducerRamp == Init /\ [][ProducerRampNext]_vars

\* The consumer with the event loop's guarantee that a timeout that was set
\* runs its callback
ConsumerFair == Init /\ [][ConsumerNext]_vars /\ WF_vars(reconnectTimer)

Next == ConsumerNext \/ ProducerNext
Spec == Init /\ [][Next]_vars

-----------------------------------------------------------------------------
(* Consumer: properties *)

\* The state of the consumer's connection: that of the socket stored in
\* window.heatmapWebSocket (Closed when none is stored or it has failed or closed)
ConnectionState ==
    IF heatmapWebSocket = 0 THEN "Closed"
    ELSE IF sockets[heatmapWebSocket].phase = "CONNECTING" THEN "Connecting"
    ELSE IF sockets[heatmapWebSocket].phase = "OPEN" THEN "Open"
    ELSE "Closed"

\* A payload that is a full_update or heatmap_update object whose data is an array
ValidUpdate(p) ==
    /\ p.json
    /\ p.value.shape = "object"
    /\ p.value.type \in {"full_update", "heatmap_update"}
    /\ IsArray(p.value.data)

\* C1: every close event leaves the overlay equal to the fallback set and,
\* unless reconnection is disabled, adds exactly one reconnect timer with the
\* 5000 ms delay; the error event that precedes a close for the same failure
\* also shows the fallback set and adds no timer.
C1_CloseFallsBackAndSchedulesOnce ==
    [][ /\ ev'.name = "close" =>
              /\ heatmapLayer' = fallbackStaticData
              /\ ~wsReconnectDisabled =>
                    /\ Len(timers') = Len(timers) + 1
                    /\ SubSeq(timers', 1, Len(timers)) = timers
                    /\ timers'[Len(timers')].delay = ReconnectDelay
        /\ ev'.name = "error" =>
              /\ heatmapLayer' = fallbackStaticData
              /\ timers' = timers ]_vars

\* C1 witness: a close that followed an error on an open connection, with one
\* timer pending and reconnection enabled
C1_Witness ==
    /\ ev.name = "close"
    /\ ~wsReconnectDisabled
    /\ Len(timers) = 1
    /\ timers[1].delay = 5000
    /\ sockets[ev.sock].sent # << >>
    /\ heatmapLayer = fallbackStaticData

\* Attempt k (the k-th connectWebSocket call) is the latest one and has ended
\* with the close event of its socket
AttemptClosed(k) == attempts = k /\ sockets[k].phase = "CLOSED"

\* Attempt k is the latest one and created no socket (new WebSocket threw)
AttemptNotCreated(k) == attempts = k /\ sockets[k].phase = "NONE"

\* C2 (as stated): if reconnection is never disabled, every ended attempt,
\* including one that failed to create the connection, is eventually followed
\* by a new attempt.
C2_Original ==
    \A k \in 1..(MaxAttempts - 1) :
        <>wsReconnectDisabled
        \/ [](AttemptClosed(k) \/ AttemptNotCreated(k) => <>(attempts > k))

\* C2 (amended): if reconnection is never disabled, every attempt that ended
\* with a close event (after a handshake failure, an error or a clean close,
\* and after any number of earlier attempts) is eventually followed by a new
\* attempt, and every pending reconnect timer has the same 5000 ms delay.
C2_ReconnectAfterEveryClose ==
    /\ [](\A i \in 1..Len(timers) : timers[i].delay = ReconnectDelay)
    /\ \A k \in 1..(MaxAttempts - 1) :
          <>wsReconnectDisabled \/ [](AttemptClosed(k) => <>(attempts > k))

\* C2 witness: a third attempt made after two attempts that both ended closed,
\* the second of them without ever opening
C2_Witness ==
    /\ attempts = 3
    /\ sockets[1].phase = "CLOSED"
    /\ sockets[2].phase = "CLOSED"
    /\ sockets[2].sent = << >>
    /\ sockets[3].phase = "CONNECTING"
    /\ ~wsReconnectDisabled

\* C3: a valid full_update or heatmap_update message makes the overlay equal
\* to exactly the message's data, whatever it held before.
C3_ValidUpdateReplacesOverlay ==
    [][ ev'.name = "message" /\ ValidUpdate(ev'.payload)
          => heatmapLayer' = ev'.payload.value.data.pts ]_vars

\* C3 witness: a non-empty update has just been applied
C3_Witness ==
    /\ ev.name = "message"
    /\ ValidUpdate(ev.payload)
    /\ ev.payload.value.type = "heatmap_update"
    /\ Len(ev.payload.value.data.pts) = 2
    /\ heatmapLayer = ev.payload.value.data.pts

\* C4: a payload that is not JSON leaves the overlay, every socket's state,
\* the pending timers and the attempt count unchanged, and a valid update that
\* arrives later on the same connection is still applied.
C4_MalformedPayloadIsDropped ==
    [][ /\ ev'.name = "message" /\ ~ev'.payload.json =>
              /\ heatmapLayer' = heatmapLayer
              /\ \A s \in 1..MaxAttempts : sockets'[s].phase = sockets[s].phase
              /\ sockets'[ev'.sock].phase = "OPEN"
              /\ timers' = timers
              /\ attempts' = attempts
        /\ ev'.name = "message" /\ sockets[ev'.sock].malformedSeen
           /\ ValidUpdate(ev'.payload) =>
              heatmapLayer' = ev'.payload.value.data.pts ]_vars

\* C4 witness: an update applied on a connection that dropped a payload before
C4_Witness ==
    /\ ev.name = "message"
    /\ sockets[ev.sock].malformedSeen
    /\ ValidUpdate(ev.payload)
    /\ ev.payload.value.data.pts # << >>
    /\ heatmapLayer = ev.payload.value.data.pts

Transition == <<ConnectionState, ConnectionState'>>

\* C5 (as stated): after startup the connection state only moves
\* Connecting -> Open, Open -> Closed and Closed -> Connecting.
C5_Original ==
    [][ started /\ ConnectionState' # ConnectionState =>
          Transition \in { <<"Connecting", "Open">>, <<"Open", "Closed">>,
                           <<"Closed", "Connecting">> } ]_vars

\* C5 (amended): after startup the connection state only moves
\* Connecting -> Open (open event), Connecting -> Closed (failed handshake),
\* Open -> Closed (error or close) and Closed -> Connecting (the retry timer,
\* with reconnection not disabled); a message event never changes it.
C5_ConnectionStateMachine ==
    [][ /\ started /\ ConnectionState' # ConnectionState =>
              \/ Transition = <<"Connecting", "Open">> /\ ev'.name = "open"
              \/ Transition = <<"Connecting", "Closed">> /\ ev'.name = "error"
              \/ Transition = <<"Open", "Closed">> /\ ev'.name \in {"error", "close"}
              \/ /\ Transition = <<"Closed", "Connecting">>
                 /\ ev'.name = "timer"
                 /\ ~wsReconnectDisabled
        /\ ev'.name = "message" =>
              ConnectionState = "Open" /\ ConnectionState' = "Open" ]_vars

\* C5 witness: a message handled on a connection opened by a reconnect
C5_Witness ==
    /\ ev.name = "message"
    /\ ConnectionState = "Open"
    /\ heatmapWebSocket = 2
    /\ sockets[1].phase = "CLOSED"

\* C6: the flag is read when the timer fires: set at that moment, no socket is
\* created; clear at that moment, connectWebSocket runs, whatever the flag was
\* when the close happened; and setting or clearing the flag changes no
\* socket, timer or overlay.
C6_FlagReadWhenTimerFires ==
    [][ /\ ev'.name = "timer" /\ wsReconnectDisabled =>
              UNCHANGED <<sockets, heatmapWebSocket, attempts, heatmapLayer>>
        /\ ev'.name = "timer" /\ ~wsReconnectDisabled =>
              /\ attempts' = attempts + 1
              /\ \/ sockets'[attempts'].phase = "CONNECTING"
                 \/ sockets' = sockets /\ heatmapLayer' = fallbackStaticData
        /\ ev'.name = "flag" =>
              UNCHANGED <<sockets, heatmapWebSocket, timers, attempts, heatmapLayer>> ]_vars

\* C6 witness: the flag was set when the connection closed and clear when the
\* timer fired, and a new socket is connecting
C6_Witness ==
    /\ ev.name = "timer"
    /\ ev.disabledAtClose
    /\ ~wsReconnectDisabled
    /\ attempts = 2
    /\ sockets[2].phase = "CONNECTING"


-----------------------------------------------------------------------------
(* Producer: properties *)

\* The payload is well-formed JSON of an object with the given type
IsMessage(p, t) == p.json /\ p.value.shape = "object" /\ p.value.type = t

\* C7: the stored intensity is a number within [0, 1] in every reachable state.
C7_IntensityInUnitRange ==
    /\ ~somnathCrowdIntensity.nan
    /\ 0 <= somnathCrowdIntensity.n
    /\ somnathCrowdIntensity.n <= Scale

\* C8: a set_crowd_intensity message carrying v, from any connection, stores
\* min(1, max(0, v)) (2.5 gives 1.0, -3 gives 0.0) and leaves the flag and the
\* counter unchanged, whatever was stored before (the last override wins).
C8_OverrideStoresClampedValue ==
    [][ pev'.name = "message" /\ IsMessage(pev'.payload, "set_crowd_intensity") =>
          LET v == pev'.payload.value.intensity IN
          /\ somnathCrowdIntensity' =
                Math_min(Num(Scale), Math_max(Num(0), ToNumber(v)))
          /\ v = [k |-> "number", n |-> 25000] => somnathCrowdIntensity' = Num(10000)
          /\ v = [k |-> "number", n |-> -30000] => somnathCrowdIntensity' = Num(0)
          /\ v = [k |-> "number", n |-> 2500] => somnathCrowdIntensity' = Num(2500)
          /\ crowdGatheringActive' = crowdGatheringActive
          /\ updateCount' = updateCount ]_vars

\* C8 witness: the second viewer has just sent intensity -3, after ticks, with
\* gathering paused and the other viewer connected; 0.0 is stored
C8_Witness ==
    /\ pev.name = "message"
    /\ pev.conn = 2
    /\ IsMessage(pev.payload, "set_crowd_intensity")
    /\ pev.payload.value.intensity = [k |-> "number", n |-> -30000]
    /\ somnathCrowdIntensity = Num(0)
    /\ clients = {1, 2}
    /\ crowdGatheringActive = "false"
    /\ updateCount >= 1

\* C9: while the gathering flag is false a tick leaves the stored intensity
\* unchanged, with or without viewers, and the only step that changes it is a
\* set_crowd_intensity message.
C9_PausedIntensityOnlyOverridden ==
    [][ crowdGatheringActive = "false" =>
          /\ pev'.name = "tick" =>
                somnathCrowdIntensity' = somnathCrowdIntensity
          /\ somnathCrowdIntensity' # somnathCrowdIntensity =>
                /\ pev'.name = "message"
                /\ IsMessage(pev'.payload, "set_crowd_intensity") ]_vars

\* C9 witness: a tick with a viewer tracked has just run with gathering paused
\* and the stored intensity is still the 0.25 an override set
C9_Witness ==
    /\ pev.name = "tick"
    /\ crowdGatheringActive = "false"
    /\ clients # {}
    /\ \E c \in Conns : sent[c] # << >>
    /\ somnathCrowdIntensity = Num(2500)

\* C10: the connection handler sends one full_update carrying the point set
\* generated from the stored intensity, so on every live connection the first
\* message sent is a full_update, never a heatmap_update of the tick.
C10_FirstMessageIsFullUpdate ==
    /\ \A c \in Conns : readyState[c] # "NONE" => first[c] = "full_update"
    /\ pev.name = "connection" =>
          /\ Len(sent[pev.conn]) = 1
          /\ sent[pev.conn][1].type = "full_update"
          /\ \E g \in Seeds :
                sent[pev.conn][1].data = getCurrentHeatmapData(somnathCrowdIntensity, g)
          /\ \A c \in Conns \ {pev.conn} : sent[c] = << >>

\* C10 witness: a tick has just broadcast a heatmap_update to two open
\* connections, each of which got its full_update first
C10_Witness ==
    /\ pev.name = "tick"
    /\ \A c \in Conns :
          /\ readyState[c] = "OPEN"
          /\ Len(sent[c]) = 1
          /\ sent[c][1].type = "heatmap_update"
          /\ first[c] = "full_update"

\* C11: after a tick that found a viewer tracked, every tracked connection that
\* is open has been sent exactly one heatmap_update, the same object for all of
\* them, and nothing has been sent to any connection that is not open.
C11_BroadcastToOpenOnly ==
    pev.name = "tick" /\ clients # {} =>
        /\ \A c \in clients :
              readyState[c] = "OPEN" =>
                 /\ Len(sent[c]) = 1
                 /\ sent[c][1].type = "heatmap_update"
        /\ \A c, d \in clients :
              readyState[c] = "OPEN" /\ readyState[d] = "OPEN" => sent[c] = sent[d]
        /\ \A c \in Conns : readyState[c] # "OPEN" => sent[c] = << >>

\* C11 witness: a tick with one tracked connection open and the other tracked
\* and closing; only the open one was sent the update
C11_Witness ==
    /\ pev.name = "tick"
    /\ clients = {1, 2}
    /\ readyState[1] = "OPEN"
    /\ readyState[2] = "CLOSING"
    /\ Len(sent[1]) = 1
    /\ sent[1][1].type = "heatmap_update"
    /\ sent[2] = << >>

\* The reply to connection c is one full_update carrying the point set
\* generated from the stored intensity, and no other connection is sent anything
RepliedOnlyTo(c) ==
    /\ Len(sent'[c]) = 1
    /\ sent'[c][1].type = "full_update"
    /\ \E g \in Seeds :
          sent'[c][1].data = getCurrentHeatmapData(somnathCrowdIntensity, g)
    /\ \A d \in Conns \ {c} : sent'[d] = << >>

\* C12 (as stated): every request_data message, whatever string its region
\* holds, is answered with one full_update to the requester only, and changes
\* neither the intensity, the flag nor the counter.
C12_Original ==
    [][ pev'.name = "message" /\ IsMessage(pev'.payload, "request_data") =>
          /\ RepliedOnlyTo(pev'.conn)
          /\ UNCHANGED <<somnathCrowdIntensity, crowdGatheringActive, updateCount>> ]_vars

\* C12 (amended): a request_data message whose region is "gujarat" is answered
\* with one full_update to the requester only; one with any other region is
\* answered with nothing; neither changes the intensity, the flag or the counter.
C12_RequestDataForGujaratReplies ==
    [][ pev'.name = "message" /\ IsMessage(pev'.payload, "request_data") =>
          /\ pev'.payload.value.region = "gujarat" => RepliedOnlyTo(pev'.conn)
          /\ pev'.payload.value.region # "gujarat" => sent' = NothingSent
          /\ UNCHANGED <<somnathCrowdIntensity, crowdGatheringActive, updateCount>> ]_vars

\* C12 witness: the second of two open viewers asked for "gujarat" and it alone
\* was sent a full_update
C12_Witness ==
    /\ pev.name = "message"
    /\ pev.conn = 2
    /\ IsMessage(pev.payload, "request_data")
    /\ pev.payload.value.region = "gujarat"
    /\ readyState[1] = "OPEN"
    /\ sent[1] = << >>
    /\ Len(sent[2]) = 1
    /\ sent[2][1].type = "full_update"

-----------------------------------------------------------------------------
(* Consumer: properties, continued *)

\* A payload that carries a point list in a shape ws.onmessage applies: a bare
\* array, or an object (typed or not) whose data is an array
CarriesPoints(p) ==
    /\ p.json
    /\ \/ p.value.shape = "array"
       \/ p.value.shape = "object" /\ p.value.data.k = "array"

\* C13: no connection attempt is made before startup; the startup step, which
\* makes the first attempt, leaves the overlay equal to the fallback set; and
\* from then on the overlay stops being the fallback set only in a message
\* event whose payload carries a point list, whether or not a socket ever opens.
C13_FallbackUntilFirstMessage ==
    /\ [](~started => attempts = 0)
    /\ [](attempts >= 1 /\ (\A s \in 1..MaxAttempts : sockets[s].sent = << >>)
            => heatmapLayer = fallbackStaticData)
    /\ [][ /\ ~started /\ started' =>
                 attempts' = 1 /\ heatmapLayer' = fallbackStaticData
           /\ started /\ heatmapLayer = fallbackStaticData
              /\ heatmapLayer' # fallbackStaticData =>
                 ev'.name = "message" /\ CarriesPoints(ev'.payload) ]_vars

\* C13 witness: the first socket failed without opening, a second one opened
\* and got a message that carries no points; the overlay is the fallback set
C13_Witness ==
    /\ ev.name = "message"
    /\ ev.sock = 2
    /\ ~CarriesPoints(ev.payload)
    /\ sockets[1].phase = "CLOSED"
    /\ sockets[1].sent = << >>
    /\ heatmapLayer = fallbackStaticData

\* C14: a socket that has not opened has sent nothing; a socket that has opened
\* has sent exactly one message, {type: "request_data", region: "gujarat"}; that
\* message is sent by the open event of the socket and no other event of any
\* socket sends anything.
C14_OneRequestPerOpen ==
    /\ [](\A s \in 1..MaxAttempts :
            /\ sockets[s].phase \in {"NONE", "CONNECTING"} => sockets[s].sent = << >>
            /\ sockets[s].phase = "OPEN" =>
                  sockets[s].sent = << [type |-> "request_data", region |-> "gujarat"] >>
            /\ Len(sockets[s].sent) <= 1)
    /\ [][ \A s \in 1..MaxAttempts :
             sockets'[s].sent # sockets[s].sent =>
                /\ ev'.name = "open" /\ ev'.sock = s
                /\ sockets[s].phase = "CONNECTING" /\ sockets'[s].phase = "OPEN"
                /\ sockets[s].sent = << >> ]_vars

\* C14 witness: the second socket, opened by a reconnect, has handled a message
\* and then closed, and it sent its one request
C14_Witness ==
    /\ ev.name = "close"
    /\ ev.sock = 2
    /\ sockets[2].malformedSeen
    /\ sockets[2].sent = << [type |-> "request_data", region |-> "gujarat"] >>
    /\ sockets[1].sent = << [type |-> "request_data", region |-> "gujarat"] >>

\* C15: a typed object with data, a bare array and an untyped object with a
\* nested data array that carry the same point list all leave the overlay equal
\* to that list; a parsed message of any other shape leaves the overlay as it was.
C15_ThreeShapesSamePoints ==
    [][ ev'.name = "message" /\ ev'.payload.json =>
          LET m == ev'.payload.value IN
          /\ m.shape = "object" /\ m.type \in {"full_update", "heatmap_update"}
             /\ m.data.k = "array" => heatmapLayer' = m.data.pts
          /\ m.shape = "array" => heatmapLayer' = m.data.pts
          /\ m.shape = "object" /\ m.type = "undefined"
             /\ m.data.k = "array" => heatmapLayer' = m.data.pts
          /\ ~CarriesPoints(ev'.payload) => heatmapLayer' = heatmapLayer ]_vars

\* C15 witness: a bare array of two points has just replaced the overlay
C15_Witness ==
    /\ ev.name = "message"
    /\ ev.payload.json
    /\ ev.payload.value.shape = "array"
    /\ Len(ev.payload.value.data.pts) = 2
    /\ heatmapLayer = ev.payload.value.data.pts

-----------------------------------------------------------------------------
(* Producer: properties, continued *)

\* The cluster part of a sent point list: what follows the base points
ClusterOf(data) == SubSeq(data, Len(baseHeatmapData) + 1, Len(data))

\* C16: for a stored intensity in [0, 1], the cluster in every message just
\* sent starts with the temple point carrying exactly that intensity and has
\* floor(intensity * 15) + 5 points, between 5 and 20; at intensity 1.0 the
\* first point is (lat, lng, 1.0) and there are 20 points.
C16_ClusterHasCenterAndSize ==
    \A c \in Conns : \A i \in 1..Len(sent[c]) :
        LET cluster == ClusterOf(sent[c][i].data)
            x == somnathCrowdIntensity
        IN  ~x.nan /\ 0 <= x.n /\ x.n <= Scale =>
              /\ Len(cluster) >= 1
              /\ cluster[1] = <<208883, 704011, x>>
              /\ Len(cluster) = (x.n * 15) \div Scale + 5
              /\ 5 <= Len(cluster) /\ Len(cluster) <= 20
              /\ x.n = Scale =>
                    /\ cluster[1] = <<208883, 704011, [nan |-> FALSE, n |-> 10000]>>
                    /\ Len(cluster) = 20

\* C16 witness: a full_update sent at intensity 1.0 with a cluster of 20 points
C16_Witness ==
    /\ somnathCrowdIntensity = [nan |-> FALSE, n |-> 10000]
    /\ Len(sent[1]) = 1
    /\ sent[1][1].type = "full_update"
    /\ Len(ClusterOf(sent[1][1].data)) = 20
    /\ ClusterOf(sent[1][1].data)[1] = <<208883, 704011, [nan |-> FALSE, n |-> 10000]>>

\* C17: a tick that fires while no viewer is tracked leaves the intensity, the
\* update counter and the gathering flag as they were and sends nothing.
C17_TickWithoutViewersIsNoop ==
    [][ pev'.name = "tick" /\ clients = {} =>
          /\ somnathCrowdIntensity' = somnathCrowdIntensity
          /\ updateCount' = updateCount
          /\ crowdGatheringActive' = crowdGatheringActive
          /\ \A c \in Conns : sent'[c] = << >> ]_vars

\* C17 witness: a tick has fired with no viewer tracked, gathering active,
\* after earlier ticks had advanced the counter
C17_Witness ==
    /\ pev.name = "tick"
    /\ clients = {}
    /\ crowdGatheringActive = "true"
    /\ updateCount >= 1

\* C18: the update counter never decreases; it grows by exactly one on a tick
\* with a tracked viewer and gathering active, and no other event changes it.
C18_CounterAdvancesOnActiveTickOnly ==
    [][ /\ updateCount' >= updateCount
        /\ IF pev'.name = "tick" /\ clients # {} /\ crowdGatheringActive = "true"
           THEN updateCount' = updateCount + 1
           ELSE updateCount' = updateCount ]_vars

\* C18 witness: the counter stands at two or more after a paused tick with a
\* viewer tracked
C18_Witness ==
    /\ pev.name = "tick"
    /\ clients # {}
    /\ crowdGatheringActive = "false"
    /\ updateCount >= 2

\* C19: the stored intensity changes only in a tick with a viewer tracked and
\* gathering active, or in a set_crowd_intensity message; connections,
\* disconnections, errors, request_data and toggle_gathering leave it as it
\* was; toggle_gathering with active = b stores b in the flag whatever the flag
\* held.
C19_IntensityWritersAndToggle ==
    [][ LET e == pev' IN
        /\ somnathCrowdIntensity' # somnathCrowdIntensity =>
              \/ e.name = "tick" /\ clients # {} /\ crowdGatheringActive = "true"
              \/ e.name = "message" /\ IsMessage(e.payload, "set_crowd_intensity")
        /\ e.name \in {"connection", "closing", "close", "error"} =>
              somnathCrowdIntensity' = somnathCrowdIntensity
        /\ e.name = "message" /\ ( \/ IsMessage(e.payload, "request_data")
                                   \/ IsMessage(e.payload, "toggle_gathering") ) =>
              somnathCrowdIntensity' = somnathCrowdIntensity
        /\ e.name = "message" /\ IsMessage(e.payload, "toggle_gathering") =>
              crowdGatheringActive' = e.payload.value.active ]_vars

\* C19 witness: a toggle_gathering message with active = true arrived while
\* the flag already held false and the intensity had been moved by a tick
C19_Witness ==
    /\ pev.name = "message"
    /\ IsMessage(pev.payload, "toggle_gathering")
    /\ pev.payload.value.active = "true"
    /\ crowdGatheringActive = "true"
    /\ updateCount >= 1
    /\ somnathCrowdIntensity # [nan |-> FALSE, n |-> 5000]

\* C20: an inbound message that JSON.parse rejects changes neither the
\* intensity, the counter, the flag nor the tracked set, gets no reply and
\* leaves its sender tracked and open; a later well-formed message from that
\* sender is processed: an override is stored clamped, a toggle is stored, a
\* request for gujarat is answered with one full_update.
C20_UnparseableMessageIgnored ==
    [][ LET e == pev' IN
        /\ e.name = "message" /\ ~e.payload.json =>
              /\ somnathCrowdIntensity' = somnathCrowdIntensity
              /\ updateCount' = updateCount
              /\ crowdGatheringActive' = crowdGatheringActive
              /\ clients' = clients
              /\ \A c \in Conns : sent'[c] = << >>
              /\ e.conn \in clients'
              /\ readyState'[e.conn] = "OPEN"
        /\ e.name = "message" /\ e.conn \in malformedFrom
              /\ e.payload.json /\ e.payload.value.shape = "object" =>
              LET data == e.payload.value IN
              /\ data.type = "set_crowd_intensity" /\ data.intensity.k = "number" =>
                    somnathCrowdIntensity' =
                       [nan |-> FALSE,
                        n |-> IF data.intensity.n < 0 THEN 0
                              ELSE IF data.intensity.n > Scale THEN Scale
                              ELSE data.intensity.n]
              /\ data.type = "toggle_gathering" =>
                    crowdGatheringActive' = data.active
              /\ data.type = "request_data" /\ data.region = "gujarat" =>
                    /\ Len(sent'[e.conn]) = 1
                    /\ sent'[e.conn][1].type = "full_update" ]_vars

\* C20 witness: a connection that had sent an unparseable payload has then
\* sent an override, which was stored
C20_Witness ==
    /\ pev.name = "message"
    /\ pev.conn \in malformedFrom
    /\ IsMessage(pev.payload, "set_crowd_intensity")
    /\ pev.payload.value.intensity = [k |-> "number", n |-> 2500]
    /\ somnathCrowdIntensity = [nan |-> FALSE, n |-> 2500]

-----------------------------------------------------------------------------
(* Consumer: properties, continued *)

\* The sockets that are connecting or open
LiveSockets == {s \in 1..MaxAttempts : sockets[s].phase \in {"CONNECTING", "OPEN"}}

\* C21: in every reachable state the number of sockets that are connecting or
\* open plus the number of pending reconnect timers is at most one.
C21_AtMostOneConnectionOrTimer ==
    Cardinality(LiveSockets) + Len(timers) <= 1

\* C21 witness: a socket failed and then closed, and the one timer is pending
\* with no live socket, after an earlier reconnect
C21_Witness ==
    /\ ev.name = "close"
    /\ ev.sock >= 2
    /\ Len(timers) = 1
    /\ LiveSockets = {}
    /\ \E s \in 1..MaxAttempts : sockets[s].phase = "CLOSED" /\ s < ev.sock

\* C22: once started, whenever no socket is open (connecting, failed, closed
\* or waiting for the reconnect timer) the overlay is the fallback list; an
\* overlay other than the fallback list is shown only while a socket is open.
C22_FallbackUnlessOpen ==
    /\ started /\ (\A s \in 1..MaxAttempts : sockets[s].phase # "OPEN") =>
          heatmapLayer = fallbackStaticData
    /\ heatmapLayer # fallbackStaticData /\ started =>
          \E s \in 1..MaxAttempts : sockets[s].phase = "OPEN"

\* C22 witness: a socket that had been opened closed without an error event;
\* the overlay is the fallback list and the reconnect timer is pending
C22_Witness ==
    /\ ev.name = "close"
    /\ sockets[ev.sock].phase = "CLOSED"
    /\ sockets[ev.sock].sent # << >>
    /\ \A s \in 1..MaxAttempts : sockets[s].phase # "OPEN"
    /\ Len(timers) = 1
    /\ heatmapLayer = fallbackStaticData

\* The timer callback ran last and found the flag set
RetryFiredDisabled == ev.name = "timer" /\ wsReconnectDisabled

\* No timer is pending, no socket is connecting, open or about to deliver its
\* close event, and the overlay is the fallback list
Halted ==
    /\ timers = << >>
    /\ \A s \in 1..MaxAttempts : sockets[s].phase \in {"NONE", "CLOSED"}
    /\ heatmapLayer = fallbackStaticData

\* C23: once the retry callback has fired with the disable flag set, the
\* consumer is halted and stays halted for ever, whatever the flag is set to
\* later: no timer, no new connection, the fallback overlay.
C23_DisabledRetryHaltsForever ==
    /\ [](RetryFiredDisabled => []Halted)
    /\ [][Halted => attempts' = attempts]_vars

\* C23 witness: every connectWebSocket call created a socket, all of them are
\* closed and the last timer has fired without connecting; the flag has since
\* been cleared
C23_Witness ==
    /\ ev.name = "flag"
    /\ ~wsReconnectDisabled
    /\ Halted
    /\ attempts >= 2
    /\ attempts < MaxAttempts
    /\ \A s \in 1..attempts : sockets[s].phase = "CLOSED"

-----------------------------------------------------------------------------
(* Producer: the ramp *)

\* x clipped to [0.3, 1.0]
ClipToRange(x) == IF x < 3000 THEN 3000 ELSE IF x > Scale THEN Scale ELSE x

\* C24: on a tick with a viewer tracked and gathering active, the stored
\* intensity is a number within min(1, 0.5 + counter/200) +/- 0.025 clipped to
\* [0.3, 1.0], or that plus 0.2 clipped to 1.0, whatever the intensity was
\* before; an intensity overridden to 0 is therefore at least 0.3 after it.
C24_TickIntensityFromCounterOnly ==
    [][ pev'.name = "tick" /\ clients # {} /\ crowdGatheringActive = "true" =>
          LET counter == updateCount'
              target == IF 5000 + 50 * counter > Scale THEN Scale ELSE 5000 + 50 * counter
              lo == ClipToRange(target - 250)
              hi == ClipToRange(target + 250)
              x == somnathCrowdIntensity'
          IN  /\ ~x.nan
              /\ \/ lo <= x.n /\ x.n <= hi
                 \/ ClipToRange(lo + 2000) <= x.n /\ x.n <= ClipToRange(hi + 2000)
              /\ 3000 <= x.n /\ x.n <= Scale
              /\ somnathCrowdIntensity = [nan |-> FALSE, n |-> 0] => x.n >= target - 250 ]_vars

\* C24 witness: past the 100th tick, a tick that found the intensity
\* overridden to 0 has stored 1.0
C24_Witness ==
    /\ pev.name = "tick"
    /\ pev.before = [nan |-> FALSE, n |-> 0]
    /\ clients # {}
    /\ crowdGatheringActive = "true"
    /\ updateCount > 100
    /\ somnathCrowdIntensity = [nan |-> FALSE, n |-> 10000]

====
